---- MODULE Spec2Model ----
(***************************************************************************)
(* Model of createEdgeMCPServer (src/mod.ts): the CORS middleware, the     *)
(* optional logging middleware, the health, root-info and protocol routes, *)
(* and the optional mounting of the inner router under a base path.        *)
(*                                                                         *)
(* Strings that the code inspects character by character (basePath, route  *)
(* patterns, request paths) are sequences of tokens: "/", " " and "*" are  *)
(* the characters themselves, every other token ("a", "health", "mcp",     *)
(* ...) abbreviates a run of characters that are neither slash nor blank.  *)
(* The elapsed time of a log line is not modelled.                         *)
(***************************************************************************)
EXTENDS Integers, Sequences, FiniteSets, TLC

VARIABLES
  pc,          \* "init" | "idle" | "dispatch" | "unwind" | "done"
  config,      \* the EdgeMCPConfig given to createEdgeMCPServer
  mounted,     \* TRUE iff the basePath branch (mod.ts:131) was taken
  base,        \* the normalized base path handed to root.route
  appRoutes,   \* routes of the inner router `app`, in registration order
  serveRoutes, \* routes of the router whose fetch serve() returns
  bindCount,   \* number of transport.bind(server) calls
  req,         \* the request being handled
  chain,       \* handlers the router matched for req, in order
  idx,         \* position in chain of the next handler to run
  prepared,    \* headers set on the context with c.header
  res,         \* the context's response, NoRes while not finalized
  logPending,  \* the logging middleware is suspended in `await next()`
  trace,       \* handlers and steps that ran for req, in order
  console,     \* lines written by console.log while handling req
  forwarded,   \* requests handed to mcpHandler while handling req
  mcpOut,      \* what mcpHandler produced for req
  returned     \* the response given back to the caller, NoRes before

vars == <<pc, config, mounted, base, appRoutes, serveRoutes, bindCount, req,
          chain, idx, prepared, res, logPending, trace, console, forwarded,
          mcpOut, returned>>

\* Longest basePath, in tokens, that the mounting specification enumerates.
MaxLen == 3

(***************************************************************************)
(* Strings                                                                 *)
(***************************************************************************)
Slash == "/"
Blank == " "
Star == "*"

StartsWith(s, p) == Len(s) >= Len(p) /\ SubSeq(s, 1, Len(p)) = p

EndsWith(s, p) == Len(s) >= Len(p) /\ SubSeq(s, Len(s) - Len(p) + 1, Len(s)) = p

RECURSIVE TrimStart(_)
TrimStart(s) == IF s # <<>> /\ Head(s) = Blank THEN TrimStart(Tail(s)) ELSE s

RECURSIVE TrimEnd(_)
TrimEnd(s) ==
  IF s # <<>> /\ s[Len(s)] = Blank THEN TrimEnd(SubSeq(s, 1, Len(s) - 1)) ELSE s

\* String.prototype.trim
Trim(s) == TrimEnd(TrimStart(s))

(***************************************************************************)
(* Configuration (EdgeMCPConfig) and requests                              *)
(***************************************************************************)
\* An optional string field that the caller left out.
Undefined == "<undefined>"

\* A request without an Origin header.
NoHeader == "<none>"

OriginA == "https://example.com"
OriginB == "https://example.org"
OriginC == "https://other.test"

\* corsOrigins?: string | string[]
CorsString(s) == [kind |-> "string", vals |-> <<s>>]
CorsArray(a) == [kind |-> "array", vals |-> a]
CorsUndefined == [kind |-> "undefined", vals |-> <<>>]

\* basePath?: string
BasePath(s) == [given |-> TRUE, val |-> s]
NoBasePath == [given |-> FALSE, val |-> <<>>]

(***************************************************************************)
(* CORS middleware, mod.ts:72-91                                           *)
(***************************************************************************)
Includes(a, x) == \E i \in 1..Len(a) : a[i] = x

\* const origin = c.req.header("Origin") || "*"
RequestOrigin(r) == IF r.origin = NoHeader \/ r.origin = "" THEN "*" ELSE r.origin

\* const allowedOrigins = Array.isArray(..) ? .. : config.corsOrigins ? [..] : ["*"]
AllowedOrigins(cfg) ==
  IF cfg.corsOrigins.kind = "array" THEN cfg.corsOrigins.vals
  ELSE IF cfg.corsOrigins.kind = "string" /\ cfg.corsOrigins.vals[1] # ""
       THEN cfg.corsOrigins.vals
       ELSE <<"*">>

\* allowedOrigins.includes("*") || allowedOrigins.includes(origin)
CorsAllowed(cfg, origin) ==
  Includes(AllowedOrigins(cfg), "*") \/ Includes(AllowedOrigins(cfg), origin)

ACAO == "Access-Control-Allow-Origin"
ACAM == "Access-Control-Allow-Methods"
ACAH == "Access-Control-Allow-Headers"
CorsNames == {ACAO, ACAM, ACAH}

CorsHeadersOriginOnly(origin) == {<<ACAO, origin>>}

\* the three c.header(...) calls of mod.ts:81-83
CorsHeaders(origin) ==
  {<<ACAO, origin>>, <<ACAM, "GET, POST, OPTIONS">>,
   <<ACAH, "Content-Type, Authorization">>}

(***************************************************************************)
(* The router's context: headers and responses                             *)
(***************************************************************************)
Names(hs) == {h[1] : h \in hs}

\* Headers.set for each header of `new`: a header of the same name is replaced.
SetHeaders(hs, new) == {h \in hs : h[1] \notin Names(new)} \cup new

NoRes == [status |-> 0, body |-> "", headers |-> {}]

\* new Response(body, {status}): a response built without the context.
RawResponse(status, body) == [status |-> status, body |-> body, headers |-> {}]

\* c.json / c.text: a response built by the context carries the headers that
\* c.header prepared, plus its content type.
NewResponse(status, body, ctype, prep) ==
  [status |-> status, body |-> body,
   headers |-> SetHeaders(prep, {<<"Content-Type", ctype>>})]

\* The context takes the response a handler returned.  The headers of a
\* response the context already holds are copied over (all but the content
\* type); headers prepared with c.header are used only by responses that the
\* context builds itself, so a handler's own Response object is taken as it
\* is.
SetRes(cur, new, prep) ==
  IF cur # NoRes
  THEN [new EXCEPT !.headers =
          SetHeaders(@, {h \in cur.headers : h[1] # "Content-Type"})]
  ELSE new

(***************************************************************************)
(* Routes and path matching                                                *)
(***************************************************************************)
\* The router joins the path it is mounted at with the path of a route: base
\* gets a leading slash when it has none, a route path of "/" adds nothing,
\* and the two are joined by exactly one slash otherwise.
mergePath(b, sub) ==
  (IF b # <<>> /\ b[1] = Slash THEN <<>> ELSE <<Slash>>) \o b \o
  (IF sub = <<Slash>> THEN <<>>
   ELSE (IF b # <<>> /\ b[Len(b)] = Slash THEN <<>> ELSE <<Slash>>) \o
        (IF sub # <<>> /\ sub[1] = Slash THEN Tail(sub) ELSE sub))

\* A pattern that ends in "/*" matches the path before the "/*" and every
\* path below it; any other pattern of this program matches only itself.
PathMatch(pattern, path) ==
  IF EndsWith(pattern, <<Slash, Star>>)
  THEN LET stem == SubSeq(pattern, 1, Len(pattern) - 2)
       IN  path = stem \/ StartsWith(path, stem \o <<Slash>>)
  ELSE pattern = path

Route(m, path, h) == [method |-> m, path |-> path, handler |-> h]

LoggingInstalledOnlyIfTrue(cfg) == cfg.enableLogging = "true"

\* if (config.enableLogging !== false), mod.ts:94
LoggingInstalled(cfg) == cfg.enableLogging # "false"

\* The registrations on `app`, in the order of mod.ts:72-128; `app` itself
\* sits at "/".
InnerRoutes(cfg) ==
  <<Route("ALL", mergePath(<<Slash>>, <<Star>>), "cors")>> \o
  (IF LoggingInstalled(cfg)
   THEN <<Route("ALL", mergePath(<<Slash>>, <<Star>>), "logging")>>
   ELSE <<>>) \o
  <<Route("GET", mergePath(<<Slash>>, <<Slash, "health">>), "health"),
    Route("GET", mergePath(<<Slash>>, <<Slash>>), "root"),
    Route("ALL", mergePath(<<Slash>>, <<Slash, "mcp">>), "mcp")>>

MountRoutesAlsoAtRoot(b, routes) ==
  routes \o [i \in 1..Len(routes) |-> [routes[i] EXCEPT !.path = mergePath(b, @)]]

\* root.route(base, app) on an empty router, mod.ts:137-138: every route of
\* app is registered again under base.
MountRoutes(b, routes) ==
  [i \in 1..Len(routes) |-> [routes[i] EXCEPT !.path = mergePath(b, @)]]

\* The handlers a router runs for a request, in registration order.
Matched(routes, method, path) ==
  LET hit(r) == (r.method = "ALL" \/ r.method = method) /\ PathMatch(r.path, path)
      sel == SelectSeq(routes, hit)
  IN  [i \in 1..Len(sel) |-> sel[i].handler]

(***************************************************************************)
(* Base path, mod.ts:131-135                                               *)
(***************************************************************************)
IsMountedNoTrim(cfg) == cfg.basePath.given /\ cfg.basePath.val # <<>>

\* config.basePath && config.basePath.trim() !== ""
IsMounted(cfg) ==
  cfg.basePath.given /\ cfg.basePath.val # <<>> /\ Trim(cfg.basePath.val) # <<>>

NormalizeBaseNoLeadingSlash(bp) ==
  LET t == Trim(bp)
  IN  IF t # <<Slash>> /\ EndsWith(t, <<Slash>>) THEN SubSeq(t, 1, Len(t) - 1) ELSE t

\* let base = config.basePath.trim();
\* if (!base.startsWith("/")) base = `/${base}`;
\* if (base !== "/" && base.endsWith("/")) base = base.slice(0, -1);
NormalizeBase(bp) ==
  LET t == Trim(bp)
      l == IF ~StartsWith(t, <<Slash>>) THEN <<Slash>> \o t ELSE t
  IN  IF l # <<Slash>> /\ EndsWith(l, <<Slash>>) THEN SubSeq(l, 1, Len(l) - 1) ELSE l

(***************************************************************************)
(* Handlers                                                                *)
(***************************************************************************)
Json == "application/json"
Text == "text/plain; charset=UTF-8"

HealthBody == "{\"status\":\"ok\"}"

HealthResponseUnavailable(prep) == NewResponse(503, HealthBody, Json, prep)

\* c.json({ status: "ok" }), mod.ts:104
HealthResponse(prep) == NewResponse(200, HealthBody, Json, prep)

\* config.version || "1.0.0"
ResolvedVersion(cfg) ==
  IF cfg.version = Undefined \/ cfg.version = "" THEN "1.0.0" ELSE cfg.version

\* the body of mod.ts:108-116
RootInfoBody(cfg) ==
  "{\"name\":\"" \o cfg.name \o "\",\"version\":\"" \o ResolvedVersion(cfg) \o
  "\",\"status\":\"ok\",\"endpoints\":{\"health\":\"./health\",\"mcp\":\"./mcp\"}}"

RootInfoResponse(cfg, prep) == NewResponse(200, RootInfoBody(cfg), Json, prep)

\* What the router answers when no handler produced a response, and when a
\* handler threw.
NotFoundResponse(prep) == NewResponse(404, "404 Not Found", Text, prep)
ErrorResponse(prep) == NewResponse(500, "Internal Server Error", Text, prep)

\* new Response(null, { status: 204 }), mod.ts:87
PreflightResponse == RawResponse(204, "")

McpForwardPathOnly(r) == [r EXCEPT !.origin = NoHeader]

\* const request = c.req.raw, mod.ts:125
McpForward(r) == r

\* What the bound transport handler may do with a request: the protocol is
\* the external server's, so any of these for any request.
McpResponses ==
  {[status |-> 200, body |-> "{\"jsonrpc\":\"2.0\",\"id\":1,\"result\":{}}",
    headers |-> {<<"Content-Type", Json>>}],
   [status |-> 400, body |-> "{\"jsonrpc\":\"2.0\",\"error\":{}}",
    headers |-> {<<"Content-Type", Json>>, <<"Mcp-Session-Id", "s1">>}]}

NoOut == [threw |-> FALSE, response |-> NoRes]
McpOutcomes ==
  {[threw |-> FALSE, response |-> r] : r \in McpResponses} \cup
  {[threw |-> TRUE, response |-> NoRes]}

\* `${c.req.method} ${c.req.url} - ${ms}ms`, without the elapsed time
LogLine(r) == <<r.method, r.path>>

(***************************************************************************)
(* Inputs                                                                  *)
(***************************************************************************)
Alphabet == {Slash, Blank, "a"}

\* every string of at most n tokens
Strings(n) == UNION {[1..k -> Alphabet] : k \in 0..n}

CorsOptions ==
  {CorsUndefined, CorsString(""), CorsString("*"), CorsString(OriginA),
   CorsArray(<<OriginA, OriginB>>), CorsArray(<<>>), CorsArray(<<"*", OriginA>>)}

LoggingOptions == {"true", "false", "undefined"}

Config(v, co, lg, bp) ==
  [name |-> "test-server", version |-> v, corsOrigins |-> co,
   enableLogging |-> lg, basePath |-> bp]

\* configurations that vary everything but the base path
Configs ==
  {Config(v, co, lg, bp) :
     v \in {Undefined, "2.0.0"}, co \in CorsOptions, lg \in LoggingOptions,
     bp \in {NoBasePath, BasePath(<<Slash, "a">>)}}

\* configurations that vary the base path
MountConfigs ==
  {Config(Undefined, CorsUndefined, lg, bp) :
     lg \in {"undefined", "false"},
     bp \in {NoBasePath} \cup {BasePath(s) : s \in Strings(MaxLen)}}

Origins == {NoHeader, OriginA, OriginB, OriginC}

Suffixes ==
  {<<>>, <<Slash>>, <<Slash, "health">>, <<Slash, "mcp">>, <<Slash, "other">>}

\* request paths: the routes and a stray path, unprefixed, under the
\* configured base path and under two fixed prefixes
ReqPaths(b) ==
  {p \o s : p \in {<<>>, b, <<Slash, "a">>, <<Slash, "b">>}, s \in Suffixes}
    \ {<<>>}

Request(e, m, path, o) == [entry |-> e, method |-> m, path |-> path, origin |-> o]

NoReq == Request("none", "GET", <<Slash>>, NoHeader)

Requests(b) ==
  {Request(e, m, path, o) :
     e \in {"app", "serve"}, m \in {"GET", "POST", "OPTIONS"},
     path \in ReqPaths(b), o \in Origins}

MountRequests(b) ==
  {Request(e, m, path, o) :
     e \in {"app", "serve"}, m \in {"GET", "POST"},
     path \in ReqPaths(b), o \in {NoHeader, OriginA}}

(***************************************************************************)
(* The state machine                                                       *)
(***************************************************************************)
Init ==
  /\ pc = "init"
  /\ config = Config(Undefined, CorsUndefined, "undefined", NoBasePath)
  /\ mounted = FALSE
  /\ base = <<>>
  /\ appRoutes = <<>>
  /\ serveRoutes = <<>>
  /\ bindCount = 0
  /\ req = NoReq
  /\ chain = <<>>
  /\ idx = 1
  /\ prepared = {}
  /\ res = NoRes
  /\ logPending = FALSE
  /\ trace = <<>>
  /\ console = <<>>
  /\ forwarded = <<>>
  /\ mcpOut = NoOut
  /\ returned = NoRes

reqVars == <<req, chain, idx, prepared, res, logPending, trace, console,
             forwarded, mcpOut, returned>>
srvVars == <<config, mounted, base, appRoutes, serveRoutes, bindCount>>

\* createEdgeMCPServer(config), mod.ts:60-153
createEdgeMCPServer(cfg) ==
  /\ pc = "init"
  /\ pc' = "idle"
  /\ config' = cfg
  /\ appRoutes' = InnerRoutes(cfg)
  /\ bindCount' = bindCount + 1
  /\ IF IsMounted(cfg)
     THEN /\ mounted' = TRUE
          /\ base' = NormalizeBase(cfg.basePath.val)
          /\ serveRoutes' = MountRoutes(NormalizeBase(cfg.basePath.val), InnerRoutes(cfg))
     ELSE /\ mounted' = FALSE
          /\ base' = <<>>
          /\ serveRoutes' = InnerRoutes(cfg)
  /\ UNCHANGED reqVars

Create == \E cfg \in Configs : createEdgeMCPServer(cfg)

CreateWithBasePath == \E cfg \in MountConfigs : createEdgeMCPServer(cfg)

\* app.fetch(request) or serve()(request): the router picks the handlers.
fetch(r) ==
  /\ pc = "idle"
  /\ pc' = "dispatch"
  /\ req' = r
  /\ chain' = Matched(IF r.entry = "app" THEN appRoutes ELSE serveRoutes,
                      r.method, r.path)
  /\ idx' = 1
  /\ prepared' = {}
  /\ res' = NoRes
  /\ logPending' = FALSE
  /\ trace' = <<>>
  /\ console' = <<>>
  /\ forwarded' = <<>>
  /\ mcpOut' = NoOut
  /\ returned' = NoRes
  /\ UNCHANGED srvVars

Fetch == \E r \in Requests(base) : fetch(r)

FetchMounted == \E r \in MountRequests(base) : fetch(r)

Running(h) == pc = "dispatch" /\ idx <= Len(chain) /\ chain[idx] = h

\* mod.ts:72-91
CorsMiddleware ==
  /\ Running("cors")
  /\ LET origin == RequestOrigin(req)
         prep == IF CorsAllowed(config, origin)
                 THEN SetHeaders(prepared, CorsHeaders(origin))
                 ELSE prepared
     IN  /\ prepared' = prep
         /\ IF req.method = "OPTIONS"
            THEN /\ res' = SetRes(res, PreflightResponse, prep)
                 /\ pc' = "unwind"
                 /\ idx' = idx
            ELSE /\ res' = res
                 /\ pc' = pc
                 /\ idx' = idx + 1
  /\ trace' = Append(trace, "cors")
  /\ UNCHANGED <<srvVars, req, chain, logPending, console, forwarded, mcpOut, returned>>

\* mod.ts:95-97, up to `await next()`
LoggingMiddleware ==
  /\ Running("logging")
  /\ logPending' = TRUE
  /\ idx' = idx + 1
  /\ trace' = Append(trace, "logging")
  /\ UNCHANGED <<srvVars, pc, req, chain, prepared, res, console, forwarded, mcpOut, returned>>

\* mod.ts:104
HealthRoute ==
  /\ Running("health")
  /\ res' = SetRes(res, HealthResponse(prepared), prepared)
  /\ pc' = "unwind"
  /\ trace' = Append(trace, "health")
  /\ UNCHANGED <<srvVars, req, chain, idx, prepared, logPending, console, forwarded, mcpOut, returned>>

\* mod.ts:107-117
RootInfoRoute ==
  /\ Running("root")
  /\ res' = SetRes(res, RootInfoResponse(config, prepared), prepared)
  /\ pc' = "unwind"
  /\ trace' = Append(trace, "root")
  /\ UNCHANGED <<srvVars, req, chain, idx, prepared, logPending, console, forwarded, mcpOut, returned>>

\* mod.ts:124-128; a handler that throws is answered by the router's error
\* response, and the middleware that awaits it resumes normally.
McpRoute ==
  /\ Running("mcp")
  /\ \E out \in McpOutcomes :
       /\ mcpOut' = out
       /\ res' = IF out.threw
                 THEN SetRes(res, ErrorResponse(prepared), prepared)
                 ELSE SetRes(res, out.response, prepared)
  /\ forwarded' = Append(forwarded, McpForward(req))
  /\ pc' = "unwind"
  /\ trace' = Append(trace, "mcp")
  /\ UNCHANGED <<srvVars, req, chain, idx, prepared, logPending, console, returned>>

\* no handler is left and none produced a response
NotFound ==
  /\ pc = "dispatch"
  /\ idx > Len(chain)
  /\ res' = SetRes(res, NotFoundResponse(prepared), prepared)
  /\ pc' = "unwind"
  /\ trace' = Append(trace, "notFound")
  /\ UNCHANGED <<srvVars, req, chain, idx, prepared, logPending, console, forwarded, mcpOut, returned>>

\* mod.ts:98-99, after `await next()`
LoggingAfter ==
  /\ pc = "unwind"
  /\ logPending
  /\ console' = Append(console, LogLine(req))
  /\ logPending' = FALSE
  /\ trace' = Append(trace, "log")
  /\ UNCHANGED <<srvVars, pc, req, chain, idx, prepared, res, forwarded, mcpOut, returned>>

\* the router returns the context's response
Respond ==
  /\ pc = "unwind"
  /\ ~logPending
  /\ returned' = res
  /\ pc' = "done"
  /\ UNCHANGED <<srvVars, req, chain, idx, prepared, res, logPending, trace, console, forwarded, mcpOut>>

\* the request is over: its context is dropped, and the handler is ready for
\* the next request
Discard ==
  /\ pc = "done"
  /\ pc' = "idle"
  /\ req' = NoReq
  /\ chain' = <<>>
  /\ idx' = 1
  /\ prepared' = {}
  /\ res' = NoRes
  /\ logPending' = FALSE
  /\ trace' = <<>>
  /\ console' = <<>>
  /\ forwarded' = <<>>
  /\ mcpOut' = NoOut
  /\ returned' = NoRes
  /\ UNCHANGED srvVars

Handle ==
  \/ CorsMiddleware
  \/ LoggingMiddleware
  \/ HealthRoute
  \/ RootInfoRoute
  \/ McpRoute
  \/ NotFound
  \/ LoggingAfter
  \/ Respond
  \/ Discard

Next == Create \/ Fetch \/ Handle

Spec == Init /\ [][Next]_vars

NextMount == CreateWithBasePath \/ FetchMounted \/ Handle

SpecMount == Init /\ [][NextMount]_vars

\* the request has been answered
Answered == pc = "done"

Ran(h) == \E i \in 1..Len(trace) : trace[i] = h

(***************************************************************************)
(* Vocabulary of the properties                                            *)
(***************************************************************************)
\* the set of origins a configuration names: a bare string is one element,
\* an array its elements, no corsOrigins the wildcard
ConfiguredOrigins(cfg) ==
  IF cfg.corsOrigins.kind = "undefined" THEN {"*"}
  ELSE {cfg.corsOrigins.vals[i] : i \in 1..Len(cfg.corsOrigins.vals)}

\* the request was dispatched into the inner router
ReachedInner == Ran("cors")

Terminals == {"health", "root", "mcp", "notFound"}

\* the response the handler h produced for the current request
Produced(h) ==
  CASE h = "health" -> HealthResponse(prepared)
    [] h = "root" -> RootInfoResponse(config, prepared)
    [] h = "mcp" -> IF mcpOut.threw THEN ErrorResponse(prepared) ELSE mcpOut.response
    [] OTHER -> NotFoundResponse(prepared)

\* where serve() answers the route that app has at `sub`
ServedAt(sub) == IF mounted THEN mergePath(base, sub) ELSE sub

HealthPath == <<Slash, "health">>
McpPath == <<Slash, "mcp">>

(***************************************************************************)
(* C1                                                                      *)
(***************************************************************************)
\* C1: whenever the request's Origin is one of the configured origins, or
\* the configured origins contain "*", the response carries
\* Access-Control-Allow-Origin equal to the request's origin ("*" when the
\* request has none), Access-Control-Allow-Methods "GET, POST, OPTIONS" and
\* Access-Control-Allow-Headers "Content-Type, Authorization".  Stated for
\* the requests that reach the CORS middleware.
C1_AllowedOriginGetsCorsHeaders ==
  (Answered /\ ReachedInner /\
   (req.origin \in ConfiguredOrigins(config) \/ "*" \in ConfiguredOrigins(config)))
  => LET o == IF req.origin = NoHeader THEN "*" ELSE req.origin
     IN  {<<ACAO, o>>, <<ACAM, "GET, POST, OPTIONS">>,
          <<ACAH, "Content-Type, Authorization">>} \subseteq returned.headers

(***************************************************************************)
(* C2                                                                      *)
(***************************************************************************)
\* C2: an OPTIONS request is answered 204 with an empty body and the three
\* CORS headers, and no downstream handler runs for it.  Stated for the
\* requests that reach the CORS middleware from an origin the configuration
\* allows.
C2_PreflightCarriesCorsHeaders ==
  (Answered /\ ReachedInner /\ req.method = "OPTIONS" /\
   (req.origin \in ConfiguredOrigins(config) \/ "*" \in ConfiguredOrigins(config)))
  => /\ returned.status = 204
     /\ returned.body = ""
     /\ CorsNames \subseteq Names(returned.headers)
     /\ trace = <<"cors">>

(***************************************************************************)
(* C3                                                                      *)
(***************************************************************************)
\* the four spellings of a segment p as a basePath
Forms(p) == {p, <<Slash>> \o p, p \o <<Slash>>, <<Slash>> \o p \o <<Slash>>}

SlashFree(s) == \A i \in 1..Len(s) : s[i] # Slash

\* slash-free segments that are not blank
Segments == {s \in Strings(MaxLen) : SlashFree(s) /\ Trim(s) # <<>>}

\* slash-free, non-empty segments without blanks at either end
CleanSegments == {s \in Segments : Trim(s) = s}

MountsAt(p) ==
  /\ mounted
  /\ base = <<Slash>> \o p
  /\ (Answered /\ req.entry = "serve" /\ req.method = "GET" /\
      req.path = <<Slash>> \o p \o HealthPath)
     => (Ran("health") /\ returned.status = 200)
  /\ (Answered /\ req.entry = "serve" /\ req.path = <<Slash>> \o p \o McpPath)
     => Ran("mcp")

\* C3 as stated: for every slash-free non-blank segment p, the basePaths
\* "p", "/p", "p/" and "/p/" all mount at "/p", where serve() answers
\* GET /p/health with 200 and routes /p/mcp to the protocol endpoint.
C3_Original ==
  pc # "init" =>
    \A p \in Segments : (config.basePath.given /\ config.basePath.val \in Forms(p))
                        => MountsAt(p)

\* C3, amended: the same for every slash-free, non-empty segment p that
\* neither begins nor ends with a blank.
C3_FourSpellingsMountAlike ==
  pc # "init" =>
    \A p \in CleanSegments : (config.basePath.given /\ config.basePath.val \in Forms(p))
                             => MountsAt(p)

C3_Witness ==
  /\ Answered
  /\ config.basePath = BasePath(<<"a", Slash>>)
  /\ req.entry = "serve"
  /\ req.method = "GET"
  /\ req.path = <<Slash, "a", Slash, "health">>
  /\ returned.status = 200

(***************************************************************************)
(* C9                                                                      *)
(***************************************************************************)
\* C9: the prefix under which the inner router is mounted has exactly one
\* leading "/" and no trailing "/" unless it is exactly "/".
C9_OneLeadingNoTrailingSlash ==
  mounted =>
    /\ StartsWith(base, <<Slash>>)
    /\ ~StartsWith(base, <<Slash, Slash>>)
    /\ (base # <<Slash>> => ~EndsWith(base, <<Slash>>))

(***************************************************************************)
(* C4                                                                      *)
(***************************************************************************)
\* the base path without its trailing slash
Stem(b) == IF EndsWith(b, <<Slash>>) THEN SubSeq(b, 1, Len(b) - 1) ELSE b

\* the path is the base path or lies below it
Under(b, path) == path = Stem(b) \/ StartsWith(path, Stem(b) \o <<Slash>>)

\* nothing of the inner router ran: the outer router answered by itself
OuterOnly == trace = <<"notFound">> /\ console = <<>> /\ prepared = {}

C5_BlankBasePathServesUnprefixed ==
  (pc # "init" /\ (~config.basePath.given \/ Trim(config.basePath.val) = <<>>)) =>
    /\ ~mounted
    /\ serveRoutes = appRoutes
    /\ (Answered /\ req.entry = "serve") =>
         /\ Ran("health") <=> (req.method = "GET" /\ req.path = HealthPath)
         /\ Ran("health") => returned.status = 200
         /\ Ran("mcp") <=> req.path = McpPath

C5_Witness ==
  /\ Answered
  /\ config.basePath = BasePath(<<Blank>>)
  /\ req.entry = "serve"
  /\ req.path = <<Slash, "a", Slash, "health">>
  /\ returned.status = 404

(***************************************************************************)
(* C6                                                                      *)
(***************************************************************************)
\* C6: a request that reaches the protocol route is handed, as it came and
\* exactly once, to the transport handler that was bound once when the
\* server was created, and the caller gets exactly the response that handler
\* produced.
C6_ProtocolPassthrough ==
  /\ pc # "init" => bindCount = 1
  /\ Ran("mcp") => forwarded = <<req>>
  /\ ~Ran("mcp") => forwarded = <<>>
  /\ (Answered /\ Ran("mcp") /\ ~mcpOut.threw) => returned = mcpOut.response
  /\ (Answered /\ ReachedInner /\ req.method # "OPTIONS" /\
      req.path = (IF req.entry = "serve" THEN ServedAt(McpPath) ELSE McpPath))
     => Ran("mcp")

C6_Witness ==
  /\ Answered
  /\ Ran("mcp")
  /\ req.method = "POST"
  /\ req.origin = OriginA
  /\ prepared # {}
  /\ mcpOut.response.status = 200
  /\ returned = mcpOut.response

(***************************************************************************)
(* C7                                                                      *)
(***************************************************************************)
\* C7: for every configuration GET /health (on the inner router, and where
\* serve() has the route) is answered 200 with the body {"status":"ok"},
\* with logging enabled, disabled or left out.
C7_HealthAlwaysOk ==
  (Answered /\ req.method = "GET" /\
   req.path = (IF req.entry = "serve" THEN ServedAt(HealthPath) ELSE HealthPath))
  => (returned.status = 200 /\ returned.body = "{\"status\":\"ok\"}")

C7_Witness ==
  /\ Answered
  /\ config.enableLogging = "false"
  /\ config.corsOrigins = CorsArray(<<>>)
  /\ req.method = "GET"
  /\ req.entry = "app"
  /\ req.path = HealthPath
  /\ req.origin = OriginC
  /\ returned.status = 200

(***************************************************************************)
(* C8                                                                      *)
(***************************************************************************)
\* C8: with enableLogging not false, a request other than OPTIONS that is
\* dispatched into the inner router produces exactly one log line, written
\* after the downstream handler produced its response and before that
\* response is returned, unaltered; an OPTIONS request produces no log line,
\* and with enableLogging false no request does.
C8_OneLogLineAfterHandler ==
  /\ console # <<>> =>
       /\ config.enableLogging # "false"
       /\ req.method # "OPTIONS"
       /\ console = <<<<req.method, req.path>>>>
       /\ Len(trace) >= 2
       /\ trace[Len(trace)] = "log"
       /\ trace[Len(trace) - 1] \in Terminals
       /\ res = Produced(trace[Len(trace) - 1])
  /\ (pc # "done" /\ console # <<>>) => returned = NoRes
  /\ (Answered /\ ReachedInner /\ req.method # "OPTIONS" /\
      config.enableLogging # "false" /\ ~mcpOut.threw)
     => (Len(console) = 1 /\ returned = Produced(trace[Len(trace) - 1]))
  /\ (Answered /\ (req.method = "OPTIONS" \/ config.enableLogging = "false"))
     => console = <<>>

C8_Witness ==
  /\ Answered
  /\ config.enableLogging = "undefined"
  /\ req.method = "POST"
  /\ Ran("mcp")
  /\ ~mcpOut.threw
  /\ console = <<<<"POST", req.path>>>>

(***************************************************************************)
(* C10                                                                     *)
(***************************************************************************)
\* C10: when the allowed origins contain neither "*" nor the request's
\* origin (a request without Origin counts as "*"), the CORS middleware sets
\* none of the three Access-Control headers, and a request other than
\* OPTIONS still runs the downstream handlers and gets the status and body
\* they produce; the middleware never sets only one or two of the three
\* headers.
C10_CorsNeverBlocksAllOrNothing ==
  LET o == IF req.origin = NoHeader THEN "*" ELSE req.origin
      allowed == Includes(AllowedOrigins(config), "*") \/
                 Includes(AllowedOrigins(config), o)
      terminal == IF Len(chain) >= 1 /\ chain[Len(chain)] \in Terminals
                  THEN chain[Len(chain)]
                  ELSE "notFound"
  IN  /\ Names(prepared) \cap CorsNames \in {{}, CorsNames}
      /\ (ReachedInner /\ ~allowed) =>
           /\ Names(prepared) \cap CorsNames = {}
           /\ Names(res.headers) \cap CorsNames = {}
      /\ (ReachedInner /\ allowed) => CorsNames \subseteq Names(prepared)
      /\ (Answered /\ ReachedInner /\ req.method # "OPTIONS") =>
           /\ Ran(terminal)
           /\ returned.status = Produced(terminal).status
           /\ returned.body = Produced(terminal).body

C10_Witness ==
  /\ Answered
  /\ config.corsOrigins = CorsString(OriginA)
  /\ req.origin = OriginB
  /\ req.method = "GET"
  /\ Ran("health")
  /\ returned.status = 200
  /\ Names(returned.headers) \cap CorsNames = {}

====
